---- MODULE Spec2Model ----
(***************************************************************************)
(* banderilla-hapi: the hapi plugin that mounts the queue panel routes.    *)
(* The model follows the plugin source with the getQueues factory          *)
(* (Internals, QueuesController): startup in onPostStart, the five route   *)
(* handlers, and the collaborators (queue, job, store client) as           *)
(* nondeterministic environments that resolve or reject each call.         *)
(* lib/index.ts is an earlier draft of the same module (static queues,     *)
(* empty mutation handlers, unbound handlers); its route table appears     *)
(* here as RouteTableLegacy.                                               *)
(***************************************************************************)
EXTENDS Integers, Sequences, FiniteSets, TLC

\* ---------------------------------------------------------------- bounds
MaxQueues == 2        \* longest list getQueues resolves to

\* ------------------------------------------------------- program constants
GRACE_TIME_MS == 5000
JOBS_OFFSET == 0
JOBS_LIMIT == 10

metrics ==
  <<"redis_version", "used_memory", "mem_fragmentation_ratio",
    "connected_clients", "blocked_clients">>

statuses ==
  <<"active", "completed", "delayed", "failed", "paused", "waiting">>

\* ------------------------------------------------------------- data values
\* An optional value is a sequence: <<>> is undefined, <<v>> is v.
None == <<>>
Some(v) == <<v>>

Range(f) == {f[i] : i \in DOMAIN f}

Names == {"a", "b"}
JobIds == {"j1", "j2"}
StatusParams == {"completed", "bogus"}

\* A queue handle: its name and its store client.
QueueHandles ==
  { [name |-> "a", client |-> "c1"],
    [name |-> "a", client |-> "c2"],
    [name |-> "b", client |-> "c2"] }
QueueLists == UNION {[1..n -> QueueHandles] : n \in 0..MaxQueues}

\* options.basePath: optional string.
BasePaths == {None, Some("/admin")}

\* A query value: absent, a string, or (from statuses) an array of strings.
Undef == [t |-> "undef", v |-> <<>>]
Str(x) == [t |-> "str", v |-> <<x>>]
Arr(xs) == [t |-> "arr", v |-> xs]
QueryVals == {Undef, Str("latest"), Str("failed")}
Queries == [Names -> QueryVals]

\* The parsed INFO block: key -> optional string (ValidMetrics types the values
\* as strings; Redis reports them non-empty).
InfoKeys ==
  Range(metrics) \cup {"total_system_memory", "maxmemory", "role"}
PresentSets ==
  { InfoKeys,
    {},
    {"redis_version", "maxmemory", "role"},
    {"used_memory", "blocked_clients", "total_system_memory", "maxmemory"} }
InfoOf(P, tag) ==
  [k \in InfoKeys |-> IF k \in P
                      THEN (IF k = "maxmemory" THEN Some("max" \o tag) ELSE Some(tag))
                      ELSE None]
Infos == {InfoOf(P, "1") : P \in PresentSets} \cup {InfoOf(InfoKeys, "2")}

\* A job as the queue library hands it out.
SampleJob ==
  [id |-> "j1", timestamp |-> "t0", processedOn |-> "t1", finishedOn |-> "t2",
   progress |-> "p", attemptsMade |-> "2", optsDelay |-> "d", failedReason |-> "r",
   stacktrace |-> "s", opts |-> "o", data |-> "x", name |-> "n"]
JobLists == {<<>>, <<SampleJob>>}

\* ------------------------------------------------------------ pure helpers
\* `${basePath}` in a template literal: undefined prints as "undefined".
TemplateStr(bp) == IF bp = None THEN "undefined" ELSE bp[1]

\* JavaScript truthiness of an optional string, and a || b.
Truthy(o) == o # None /\ o # Some("")
OrElse(a, b) == IF Truthy(a) THEN a ELSE b

\* Variant of find: the last match instead of the first.
findLast(qs, queueName) ==
  IF \E i \in DOMAIN qs : qs[i].name = queueName
  THEN CHOOSE i \in DOMAIN qs :
         /\ qs[i].name = queueName
         /\ \A j \in DOMAIN qs : qs[j].name = queueName => j <= i
  ELSE 0

\* queues.find(q => q.name === queueName): index of the first match, 0 if none.
find(qs, queueName) ==
  IF \E i \in DOMAIN qs : qs[i].name = queueName
  THEN CHOOSE i \in DOMAIN qs :
         /\ qs[i].name = queueName
         /\ \A j \in DOMAIN qs : qs[j].name = queueName => i <= j
  ELSE 0

notFound ==
  [kind |-> "response", code |-> 404,
   body |-> [statusCode |-> 404, error |-> "Not Found", message |-> "Not Found"]]

EmptyBody == [empty |-> TRUE]
Thrown == [kind |-> "error", code |-> 500, body |-> EmptyBody]
HostNotFound == [kind |-> "noroute", code |-> 404, body |-> EmptyBody]
ReturnedUndefined == [kind |-> "undefined", code |-> 0, body |-> EmptyBody]
Reply(c) == [kind |-> "response", code |-> c, body |-> EmptyBody]

formatJob(job) ==
  [id |-> job.id, timestamp |-> job.timestamp, processedOn |-> job.processedOn,
   finishedOn |-> job.finishedOn, progress |-> job.progress,
   attempts |-> job.attemptsMade, delay |-> job.optsDelay,
   failedReason |-> job.failedReason, stacktrace |-> job.stacktrace,
   opts |-> job.opts, data |-> job.data, name |-> job.name]

MapFormatJob(jobs) == [i \in DOMAIN jobs |-> formatJob(jobs[i])]

\* ------------------------------------------------------------------- state
VARIABLES
  options,         \* Internals.options: [basePath]
  pc,              \* startup: "registered", "awaitQueues", "started", "failed"
  queues,          \* Internals.queues: None until assigned, then Some(list)
  routes,          \* the host server's route table entries added by the plugin
  getQueuesCalls,  \* number of invocations of options.getQueues
  req              \* the request being handled: the handler's locals and its calls

srv == <<options, pc, queues, routes, getQueuesCalls>>
vars == <<options, pc, queues, routes, getQueuesCalls, req>>

IdleReq ==
  [h |-> "none", pc |-> "idle",
   params |-> [queue |-> "", job |-> "", status |-> ""],
   query |-> [n \in Names |-> Undef],
   qs |-> None, sawUnset |-> FALSE,
   infoCalls |-> <<>>, redisInfo |-> None, stats |-> {},
   stage |-> <<>>, countsCalls |-> <<>>, counts |-> <<>>,
   jobsCalls |-> <<>>, jobsGot |-> <<>>, entries |-> <<>>, doneOrder |-> <<>>,
   getJobCalls |-> <<>>, job |-> None, opCalls |-> <<>>, cleanCalls |-> <<>>,
   outcomes |-> <<>>,
   resp |-> None]

Init ==
  /\ options \in [basePath : BasePaths]
  /\ pc = "registered"
  /\ queues = None
  /\ routes = {}
  /\ getQueuesCalls = 0
  /\ req = IdleReq


\* ----------------------------------------------------------------- startup
\* The five route suffixes of the table handed to server.route, in order.
RouteSpecs ==
  << [method |-> "GET", suffix |-> "/queues", handler |-> "index"],
     [method |-> "PUT", suffix |-> "/queues/{queue}/retry", handler |-> "retryAll"],
     [method |-> "PUT", suffix |-> "/queues/{queue}/clean/{status}", handler |-> "clean"],
     [method |-> "PUT", suffix |-> "/queues/{queue}/jobs/{job}/retry", handler |-> "retry"],
     [method |-> "PUT", suffix |-> "/queues/{queue}/jobs/{job}/promote", handler |-> "promote"] >>

\* Variant of RouteTable: unbound handlers on the paths without jobs/{job}.
RouteTableLegacy(basePath) ==
  { [method |-> "GET", path |-> TemplateStr(basePath) \o "/queues",
     handler |-> "index", bound |-> FALSE],
    [method |-> "PUT", path |-> TemplateStr(basePath) \o "/queues/retry",
     handler |-> "retryAll", bound |-> FALSE],
    [method |-> "PUT", path |-> TemplateStr(basePath) \o "/queues/{queue}/retry",
     handler |-> "retry", bound |-> FALSE],
    [method |-> "PUT", path |-> TemplateStr(basePath) \o "/queues/{queue}/promote",
     handler |-> "promote", bound |-> FALSE],
    [method |-> "PUT", path |-> TemplateStr(basePath) \o "/queues/{queue}/clean/{status}",
     handler |-> "clean", bound |-> FALSE] }

\* The route objects built in onPostStart; bound: handler.bind(controller).
RouteTable(basePath) ==
  { [method |-> RouteSpecs[i].method,
     path |-> TemplateStr(basePath) \o RouteSpecs[i].suffix,
     handler |-> RouteSpecs[i].handler,
     bound |-> TRUE] : i \in DOMAIN RouteSpecs }

\* Variant of onPostStart: server.route runs before the await of getQueues.
onPostStartRoutesFirst ==
  /\ pc = "registered"
  /\ getQueuesCalls' = getQueuesCalls + 1
  /\ routes' = routes \cup RouteTable(options.basePath)
  /\ pc' = "awaitQueues"
  /\ UNCHANGED <<options, queues, req>>

\* Internals.onPostStart up to its await: the controller is built and
\* options.getQueues() is called.
onPostStart ==
  /\ pc = "registered"
  /\ getQueuesCalls' = getQueuesCalls + 1
  /\ pc' = "awaitQueues"
  /\ UNCHANGED <<options, queues, routes, req>>

\* The getQueues promise resolves: the list is stored, then server.route runs.
onPostStartResume ==
  /\ pc = "awaitQueues"
  /\ \E list \in QueueLists : queues' = Some(list)
  /\ routes' = routes \cup RouteTable(options.basePath)
  /\ pc' = "started"
  /\ UNCHANGED <<options, getQueuesCalls, req>>

\* The getQueues promise rejects: onPostStart rejects at the await.
onPostStartReject ==
  /\ pc = "awaitQueues"
  /\ pc' = "failed"
  /\ UNCHANGED <<options, queues, routes, getQueuesCalls, req>>

\* ---------------------------------------------------------------- requests
Methods == {"GET", "PUT"}
\* Paths a client may ask for: the table's paths and two that are not in it.
CandidatePaths ==
  {TemplateStr(options.basePath) \o RouteSpecs[i].suffix : i \in DOMAIN RouteSpecs}
    \cup {TemplateStr(options.basePath) \o "/queues/{queue}/promote", "/queues"}

Routed(handler) == {rt \in routes : rt.handler = handler}

Set(r) == req' = r

\* A request no plugin route matches: the host answers.
NoRoute ==
  /\ req.h = "none"
  /\ \E m \in Methods, p \in CandidatePaths :
       /\ ~ \E rt \in routes : rt.method = m /\ rt.path = p
       /\ Set([req EXCEPT !.h = "noroute", !.pc = "done",
                                !.resp = Some(HostNotFound)])
  /\ UNCHANGED srv

\* The handler's first statements: `this.internals` of an unbound handler and
\* `.length` / `.find` of an unassigned list throw.
Entered(h, rt) ==
  [req EXCEPT !.h = h, !.qs = IF rt.bound THEN queues ELSE None,
                 !.sawUnset = (rt.bound /\ queues = None)]

Broken(r) == r.qs = None

Fail(r) == [r EXCEPT !.pc = "done", !.resp = Some(Thrown)]
Done(r, resp) == [r EXCEPT !.pc = "done", !.resp = Some(resp)]

\* An awaited call of the handler settles: its outcome is noted.
Resolved(r) == [r EXCEPT !.outcomes = Append(@, "resolved")]
RejectedCall(r) == Fail([r EXCEPT !.outcomes = Append(@, "rejected")])

\* The list a handler works on: the one read from this.internals.
HandlerQueues(r) == r.qs[1]

\* Variant of retryAll: the handler resolves the list again through getQueues.
retryAllRefetch ==
  /\ req.h = "none"
  /\ getQueuesCalls < 3
  /\ \E rt \in Routed("retryAll"), qn \in Names, list \in QueueLists :
       LET r == [Entered("retryAll", rt) EXCEPT !.params.queue = qn, !.qs = Some(list)] IN
       /\ getQueuesCalls' = getQueuesCalls + 1
       /\ queues' = Some(list)
       /\ IF find(list, qn) = 0 THEN Set(Done(r, notFound))
          ELSE Set(Done(r, ReturnedUndefined))
  /\ UNCHANGED <<options, pc, routes>>

\* QueuesController.retryAll
retryAll ==
  /\ req.h = "none"
  /\ \E rt \in Routed("retryAll"), qn \in Names :
       LET r == [Entered("retryAll", rt) EXCEPT !.params.queue = qn] IN
       IF Broken(r) THEN Set(Fail(r))
       ELSE IF find(HandlerQueues(r), qn) = 0 THEN Set(Done(r, notFound))
       ELSE Set(Done(r, ReturnedUndefined))
  /\ UNCHANGED srv

\* QueuesController.retry / promote up to `await queue.getJob(jobId)`.
JobHandlerEnter(h) ==
  /\ req.h = "none"
  /\ \E rt \in Routed(h), qn \in Names, jid \in JobIds :
       LET r == [Entered(h, rt) EXCEPT !.params.queue = qn, !.params.job = jid]
           i == find(HandlerQueues(r), qn) IN
       IF Broken(r) THEN Set(Fail(r))
       ELSE IF i = 0 THEN Set(Done(r, notFound))
       ELSE Set([r EXCEPT !.pc = "getJob",
                             !.getJobCalls = Append(@, [queue |-> i, id |-> jid])])
  /\ UNCHANGED srv

retry == JobHandlerEnter("retry")
promote == JobHandlerEnter("promote")

\* The operation the handler applies to the job it found.
JobOp(h) == h

\* getJob resolves: to a job of that queue, or to nothing.
GetJobResolve ==
  /\ req.pc = "getJob"
  /\ LET r == Resolved(req)
         call == r.getJobCalls[Len(r.getJobCalls)]
         job == [queue |-> call.queue, id |-> call.id] IN
       \/ Set(Done(r, notFound))
       \/ Set([r EXCEPT !.pc = "op", !.job = Some(job),
                           !.opCalls = Append(@, [op |-> JobOp(r.h), job |-> job])])
  /\ UNCHANGED srv

GetJobReject ==
  /\ req.pc = "getJob"
  /\ Set(RejectedCall(req))
  /\ UNCHANGED srv

\* job.retry() / job.promote() resolves.
JobOpResolve ==
  /\ req.pc = "op"
  /\ Set(Done(Resolved(req), Reply(204)))
  /\ UNCHANGED srv

\* job.retry() / job.promote() rejects (the job is not in the state it needs).
JobOpReject ==
  /\ req.pc = "op"
  /\ Set(RejectedCall(req))
  /\ UNCHANGED srv

\* Variant of CleanArgs: the unused LIMIT constant passed as the grace period.
CleanArgsLimit(i, status) == [queue |-> i, grace |-> 1000, status |-> status]

\* The arguments of queue.clean.
CleanArgs(i, status) == [queue |-> i, grace |-> GRACE_TIME_MS, status |-> status]

\* QueuesController.clean up to `await queue.clean(...)`.
clean ==
  /\ req.h = "none"
  /\ \E rt \in Routed("clean"), qn \in Names, st \in StatusParams :
       LET r == [Entered("clean", rt) EXCEPT !.params.queue = qn, !.params.status = st]
           i == find(HandlerQueues(r), qn) IN
       IF Broken(r) THEN Set(Fail(r))
       ELSE IF i = 0 THEN Set(Done(r, notFound))
       ELSE Set([r EXCEPT !.pc = "clean",
                             !.cleanCalls = Append(@, CleanArgs(i, st))])
  /\ UNCHANGED srv

CleanResolve ==
  /\ req.pc = "clean"
  /\ Set(Done(Resolved(req), Reply(200)))
  /\ UNCHANGED srv

CleanReject ==
  /\ req.pc = "clean"
  /\ Set(RejectedCall(req))
  /\ UNCHANGED srv


\* ------------------------------------------------------------------- index
\* Variant of Stats: every key of the info block is copied.
StatsUnfiltered(redisInfo) ==
  { <<k, redisInfo[k]>> : k \in {j \in InfoKeys : Truthy(redisInfo[j])} }
  \cup { <<"total_system_memory",
           OrElse(redisInfo["total_system_memory"], redisInfo["maxmemory"])>> }

\* metrics.reduce(...) and the total_system_memory line: the stats object as
\* its set of <<key, value>> properties (a value may be undefined).
Stats(redisInfo) ==
  { <<metrics[i], redisInfo[metrics[i]]>> :
      i \in {j \in DOMAIN metrics : Truthy(redisInfo[metrics[j]])} }
  \cup { <<"total_system_memory",
           OrElse(redisInfo["total_system_memory"], redisInfo["maxmemory"])>> }

\* The store client INFO is asked of.
InfoClient(qs) == qs[1].client

\* Variant of StatusFilter: "latest" for any queue selects all statuses for all.
StatusFilterAnyLatest(query, queue) ==
  IF \E n \in DOMAIN query : query[n] = Str("latest")
  THEN Arr(statuses) ELSE query[queue.name]

\* query[queue.name] === 'latest' ? statuses : query[queue.name]
StatusFilter(query, queue) ==
  IF query[queue.name] = Str("latest") THEN Arr(statuses) ELSE query[queue.name]

\* The arguments of queue.getJobs.
GetJobsArgs(query, queue) ==
  [status |-> StatusFilter(query, queue), offset |-> JOBS_OFFSET, limit |-> JOBS_LIMIT]

\* The value getJobCounts resolves to for the i-th queue.
CountsOf(i) == [queue |-> i]

\* Promise.all resolves when every per-queue promise has resolved.
AllResolved(stage) == \A i \in DOMAIN stage : stage[i] = "done"

\* Variant of Data: the results in the order the closures completed.
DataByCompletion(r) ==
  [k \in DOMAIN r.doneOrder |-> r.entries[r.doneOrder[k]][1]]

\* The array Promise.all resolves to: the results by input position.
Data(r) == [i \in DOMAIN r.entries |-> r.entries[i][1]]

IndexBody(r) == [stats |-> r.stats, data |-> Data(r)]
\* Variant of EmptyIndexBody: the list under the key of the populated response.
EmptyIndexBodyData == [stats |-> {}, data |-> <<>>]
EmptyIndexBody == [stats |-> {}, queues |-> <<>>]
Returned(body) == [kind |-> "response", code |-> 200, body |-> body]

\* Whether index takes its early return.
NoQueues(qs) == Len(qs) = 0

\* QueuesController.index up to `await redisClient.info()`.
index ==
  /\ req.h = "none"
  /\ \E rt \in Routed("index"), q \in Queries :
       LET r == [Entered("index", rt) EXCEPT !.query = q] IN
       IF Broken(r) THEN Set(Fail(r))
       ELSE IF NoQueues(HandlerQueues(r))
            THEN Set(Done(r, Returned(EmptyIndexBody)))
       ELSE Set([r EXCEPT !.pc = "info",
                             !.infoCalls = Append(@, InfoClient(HandlerQueues(r)))])
  /\ UNCHANGED srv

\* info() resolves: stats are computed and queues.map starts every per-queue
\* closure, each running to its `await queue.getJobCounts(...statuses)`.
IndexInfoResolve ==
  /\ req.pc = "info"
  /\ \E info \in Infos :
       LET r == req
           n == DOMAIN HandlerQueues(r) IN
       Set([r EXCEPT !.pc = "fanout",
                        !.redisInfo = Some(info),
                        !.stats = Stats(info),
                        !.stage = [i \in n |-> "counts"],
                        !.countsCalls = [i \in n |-> <<statuses>>],
                        !.counts = [i \in n |-> None],
                        !.jobsCalls = [i \in n |-> <<>>],
                        !.jobsGot = [i \in n |-> None],
                        !.entries = [i \in n |-> None]])
  /\ UNCHANGED srv

IndexInfoReject ==
  /\ req.pc = "info"
  /\ Set(RejectedCall(req))
  /\ UNCHANGED srv

\* The i-th closure resumes after getJobCounts and calls getJobs.
CountsResolve(i) ==
  /\ req.pc \in {"fanout", "done"}
  /\ i \in DOMAIN req.stage
  /\ req.stage[i] = "counts"
  /\ LET r == req IN
       Set([r EXCEPT !.stage[i] = "jobs",
                        !.counts[i] = Some(CountsOf(i)),
                        !.jobsCalls[i] = Append(@, GetJobsArgs(r.query, HandlerQueues(r)[i]))])
  /\ UNCHANGED srv

\* Variant of Rejected: the rejection is not propagated to the request.
RejectedIgnored(r, i) == [r EXCEPT !.stage[i] = "failed"]

\* A per-queue promise rejects: Promise.all rejects with the first rejection
\* and index throws; the other closures keep running.
Rejected(r, i) ==
  [r EXCEPT !.stage[i] = "failed",
            !.pc = "done",
            !.resp = IF r.resp = None THEN Some(Thrown) ELSE r.resp]

CountsReject(i) ==
  /\ req.pc \in {"fanout", "done"}
  /\ i \in DOMAIN req.stage
  /\ req.stage[i] = "counts"
  /\ Set(Rejected(req, i))
  /\ UNCHANGED srv

\* The i-th closure resumes after getJobs and returns its entry; when it is
\* the last one, Promise.all resolves and index returns {stats, data}.
JobsResolve(i) ==
  /\ req.pc \in {"fanout", "done"}
  /\ i \in DOMAIN req.stage
  /\ req.stage[i] = "jobs"
  /\ \E jobs \in JobLists :
       LET r == req
           entry == [name |-> HandlerQueues(r)[i].name,
                     counts |-> r.counts[i][1],
                     jobs |-> MapFormatJob(jobs)]
           r2 == [r EXCEPT !.stage[i] = "done",
                           !.jobsGot[i] = Some(jobs),
                           !.entries[i] = Some(entry),
                           !.doneOrder = Append(@, i)] IN
       IF AllResolved(r2.stage) /\ r2.resp = None
       THEN Set(Done(r2, Returned(IndexBody(r2))))
       ELSE Set(r2)
  /\ UNCHANGED srv

JobsReject(i) ==
  /\ req.pc \in {"fanout", "done"}
  /\ i \in DOMAIN req.stage
  /\ req.stage[i] = "jobs"
  /\ Set(Rejected(req, i))
  /\ UNCHANGED srv

\* ------------------------------------------------------------ specification
Settled(r) == \A i \in DOMAIN r.stage : r.stage[i] \in {"done", "failed"}

\* The response has been sent and nothing of the request is pending: the next
\* request is taken.
Finish ==
  /\ req.pc = "done"
  /\ Settled(req)
  /\ Set(IdleReq)
  /\ UNCHANGED srv

Next ==
  \/ onPostStart
  \/ onPostStartResume
  \/ onPostStartReject
  \/ NoRoute
  \/ index
  \/ IndexInfoResolve
  \/ IndexInfoReject
  \/ retryAll
  \/ retry
  \/ promote
  \/ GetJobResolve
  \/ GetJobReject
  \/ JobOpResolve
  \/ JobOpReject
  \/ clean
  \/ CleanResolve
  \/ CleanReject
  \/ Finish
  \/ \E i \in 1..MaxQueues :
       \/ CountsResolve(i)
       \/ CountsReject(i)
       \/ JobsResolve(i)
       \/ JobsReject(i)

Spec == Init /\ [][Next]_vars


\* ================================================================== claims
\* Index of the first queue of qs named n, 0 when there is none.
FirstNamed(qs, n) ==
  LET hits == {i \in DOMAIN qs : qs[i].name = n} IN
  IF hits = {} THEN 0 ELSE CHOOSE i \in hits : \A j \in hits : i <= j

NotFound404 ==
  [kind |-> "response", code |-> 404,
   body |-> [statusCode |-> 404, error |-> "Not Found", message |-> "Not Found"]]
Empty204 == [kind |-> "response", code |-> 204, body |-> [empty |-> TRUE]]
Empty200 == [kind |-> "response", code |-> 200, body |-> [empty |-> TRUE]]
Propagated == [kind |-> "error", code |-> 500, body |-> [empty |-> TRUE]]

JobHandlerDone == req.h \in {"retry", "promote"} /\ req.pc = "done"

\* C1 as stated: a finished retry / promote request invoked the operation once,
\* on the job getJob returned for the first queue of that name, and answered
\* 204, iff that queue exists and getJob returned a job; in every other case
\* it answered the fixed 404 and invoked nothing.
C1_AsStated ==
  JobHandlerDone =>
    LET i == FirstNamed(queues[1], req.params.queue)
        j == [queue |-> i, id |-> req.params.job] IN
    IF i # 0 /\ req.job # None
    THEN /\ req.job = Some(j)
         /\ req.opCalls = <<[op |-> req.h, job |-> j]>>
         /\ req.resp = Some(Empty204)
    ELSE /\ req.opCalls = <<>>
         /\ req.resp = Some(NotFound404)

\* C1 (amended): the operation is invoked at most once, and exactly once, on
\* the job getJob resolved to for the first queue of that name, iff that queue
\* exists and getJob resolved to a job; the answer is then 204 with empty body
\* when the operation resolves and the propagated failure when it rejects. An
\* unknown queue, or getJob resolving to nothing, gives the fixed 404 and no
\* operation; getJob rejecting gives the propagated failure and no operation.
C1_RetryPromote ==
  /\ Len(req.opCalls) <= 1
  /\ JobHandlerDone =>
       LET i == FirstNamed(queues[1], req.params.queue)
           j == [queue |-> i, id |-> req.params.job] IN
       IF i = 0
       THEN req.getJobCalls = <<>> /\ req.opCalls = <<>> /\ req.resp = Some(NotFound404)
       ELSE /\ req.getJobCalls = <<j>>
            /\ IF req.job # None
               THEN /\ req.job = Some(j)
                    /\ req.opCalls = <<[op |-> req.h, job |-> j]>>
                    /\ req.outcomes \in {<<"resolved", "resolved">>, <<"resolved", "rejected">>}
                    /\ req.resp = IF req.outcomes[2] = "resolved"
                                  THEN Some(Empty204) ELSE Some(Propagated)
               ELSE /\ req.opCalls = <<>>
                    /\ req.outcomes \in {<<"resolved">>, <<"rejected">>}
                    /\ req.resp = IF req.outcomes[1] = "resolved"
                                  THEN Some(NotFound404) ELSE Some(Propagated)

\* A retry answered 204 where two queues carry the requested name.
C1_Witness ==
  /\ req.h = "retry" /\ req.pc = "done" /\ req.resp = Some(Empty204)
  /\ Len(queues[1]) = 2
  /\ queues[1][1].name = req.params.queue
  /\ queues[1][2].name = req.params.queue

\* C2 as stated: a finished clean request for a known queue called clean once
\* with 5000 and the status parameter and answered 200; for an unknown queue
\* it answered the fixed 404 and called no clean.
C2_AsStated ==
  (req.h = "clean" /\ req.pc = "done") =>
    LET i == FirstNamed(queues[1], req.params.queue) IN
    IF i # 0
    THEN /\ req.cleanCalls = <<[queue |-> i, grace |-> 5000, status |-> req.params.status]>>
         /\ req.resp = Some(Empty200)
    ELSE req.cleanCalls = <<>> /\ req.resp = Some(NotFound404)

\* C2 (amended): for a known queue clean is called exactly once, on that queue,
\* with 5000 and the status parameter unchanged, and the answer is 200 when
\* clean resolves and the propagated failure when it rejects; for an unknown
\* queue the answer is the fixed 404 and clean is never called.
C2_Clean ==
  /\ Len(req.cleanCalls) <= 1
  /\ (req.h = "clean" /\ req.pc = "done") =>
       LET i == FirstNamed(queues[1], req.params.queue) IN
       IF i # 0
       THEN /\ req.cleanCalls = <<[queue |-> i, grace |-> 5000, status |-> req.params.status]>>
            /\ req.outcomes \in {<<"resolved">>, <<"rejected">>}
            /\ req.resp = IF req.outcomes[1] = "resolved"
                          THEN Some(Empty200) ELSE Some(Propagated)
       ELSE req.cleanCalls = <<>> /\ req.resp = Some(NotFound404)

\* A clean answered 200 on the second queue of the list.
C2_Witness ==
  /\ req.h = "clean" /\ req.pc = "done" /\ req.resp = Some(Empty200)
  /\ req.params.status = "bogus"
  /\ Len(req.cleanCalls) = 1 /\ req.cleanCalls[1].queue = 2

\* C3: with an empty resolved list, index answers exactly {stats: {}, queues: []}
\* at once, whatever the query, and calls neither info nor getJobCounts nor
\* getJobs.
C3_EmptyIndex ==
  (req.h = "index" /\ queues = Some(<<>>)) =>
    /\ req.pc = "done"
    /\ req.resp = Some([kind |-> "response", code |-> 200,
                        body |-> [stats |-> {}, queues |-> <<>>]])
    /\ req.infoCalls = <<>>
    /\ req.countsCalls = <<>>
    /\ req.jobsCalls = <<>>
    /\ req.stage = <<>>

\* index answered on an empty list although the query asked for "latest".
C3_Witness ==
  /\ req.h = "index" /\ queues = Some(<<>>) /\ req.resp # None
  /\ req.query["a"] = Str("latest")

\* The five routes of the plugin under a path prefix.
ExpectedRoutes(prefix) ==
  { [method |-> "GET", path |-> prefix \o "/queues",
     handler |-> "index", bound |-> TRUE],
    [method |-> "PUT", path |-> prefix \o "/queues/{queue}/retry",
     handler |-> "retryAll", bound |-> TRUE],
    [method |-> "PUT", path |-> prefix \o "/queues/{queue}/clean/{status}",
     handler |-> "clean", bound |-> TRUE],
    [method |-> "PUT", path |-> prefix \o "/queues/{queue}/jobs/{job}/retry",
     handler |-> "retry", bound |-> TRUE],
    [method |-> "PUT", path |-> prefix \o "/queues/{queue}/jobs/{job}/promote",
     handler |-> "promote", bound |-> TRUE] }

IndexFannedOut == req.h = "index" /\ req.stage # <<>>
IndexResponded ==
  IndexFannedOut /\ req.resp # None /\ req.resp[1].kind = "response"

\* C6: index answers {stats, data} only when the counts fetch and the jobs
\* fetch of every queue have completed, each entry carrying its own completed
\* counts and jobs; and as soon as one per-queue fetch has failed the request
\* has failed, with no {stats, data} answer.
C6_AllOrNothing ==
  IndexFannedOut =>
    /\ (\E i \in DOMAIN req.stage : req.stage[i] = "failed") =>
         req.resp = Some(Propagated)
    /\ (\A i \in DOMAIN req.stage : req.stage[i] = "done") => IndexResponded
    /\ IndexResponded =>
         /\ DOMAIN req.resp[1].body.data = DOMAIN req.stage
         /\ \A i \in DOMAIN req.stage :
              /\ req.stage[i] = "done"
              /\ req.resp[1].body.data[i].counts = [queue |-> i]
              /\ req.jobsGot[i] # None
              /\ req.resp[1].body.data[i].jobs = MapFormatJob(req.jobsGot[i][1])

\* The request failed although another queue's fetches had completed.
C6_Witness ==
  /\ IndexFannedOut /\ req.resp = Some(Propagated)
  /\ \E i, j \in DOMAIN req.stage : req.stage[i] = "done" /\ req.stage[j] = "failed"

\* C7: the data array has one entry per queue of the resolved list and
\* data[i].name is the name of its i-th queue.
C7_DataOrder ==
  IndexResponded =>
    /\ Len(req.resp[1].body.data) = Len(queues[1])
    /\ \A i \in DOMAIN queues[1] : req.resp[1].body.data[i].name = queues[1][i].name

\* The second queue completed first, and the two names differ.
C7_Witness ==
  /\ IndexResponded
  /\ req.doneOrder = <<2, 1>>
  /\ queues[1][1].name # queues[1][2].name

AllowList ==
  {"redis_version", "used_memory", "mem_fragmentation_ratio",
   "connected_clients", "blocked_clients"}

\* C8: stats come from the info of the first queue's client: the allow-listed
\* keys present in it, each with its value, plus total_system_memory, which is
\* the info's total_system_memory when present and else its maxmemory; no
\* other key.
C8_Stats ==
  IndexResponded =>
    LET st == req.resp[1].body.stats
        info == req.redisInfo[1] IN
    /\ req.infoCalls = <<queues[1][1].client>>
    /\ \A kv \in st : kv[1] \in AllowList \cup {"total_system_memory"}
    /\ \A k \in AllowList :
         /\ info[k] # None => <<k, info[k]>> \in st
         /\ info[k] = None => ~ \E kv \in st : kv[1] = k
    /\ \A kv \in st : kv[1] \in AllowList => kv[2] = info[kv[1]]
    /\ \A kv \in st : kv[1] = "total_system_memory" =>
         kv[2] = IF info["total_system_memory"] # None
                 THEN info["total_system_memory"] ELSE info["maxmemory"]
    /\ \E kv \in st : kv[1] = "total_system_memory"

\* The info lacks total_system_memory and carries a key outside the list.
C8_Witness ==
  /\ IndexResponded
  /\ req.redisInfo[1]["total_system_memory"] = None
  /\ req.redisInfo[1]["role"] # None
  /\ <<"total_system_memory", Some("max1")>> \in req.resp[1].body.stats
  /\ Len(queues[1]) = 2 /\ queues[1][1].client # queues[1][2].client

C10_NoUnpopulatedList ==
  /\ req.h \notin {"none", "noroute"} =>
       pc = "started" /\ queues # None /\ ~ req.sawUnset /\ req.qs = queues
  /\ routes # {} => pc = "started" /\ queues # None
  /\ pc = "failed" => routes = {} /\ queues = None

\* A request arrived while getQueues was pending and found no route.
C10_Witness ==
  /\ pc = "awaitQueues" /\ req.h = "noroute" /\ req.resp = Some(HostNotFound)

====
